---- MODULE Spec2Model ----
(***************************************************************************)
(* Model of the XMPP client core of go-xmpp (package client/rfc6120):      *)
(* Dial's negotiation loop, the cookie generator, the stanza router        *)
(* (Connection.read), the IQ callback table, the subscriber fan-out and    *)
(* the session API (SendIQ, SendIQReply, SendPresence, SubscribeStanzas,   *)
(* Close).  Every goroutine is a process with a program counter; a step of *)
(* a process is one statement (or one run of statements that touch only    *)
(* locals) of the Go source.                                               *)
(***************************************************************************)
EXTENDS Integers, Sequences, FiniteSets, TLC

(***************************************************************************)
(* Bounds of the model.                                                    *)
(***************************************************************************)
\* number of API calls each goroutine using the session makes
MaxOps == 1
\* number of iterations of Dial's negotiation loop the server asks for
MaxIter == 3
\* number of sinks registered with SubscribeStanzas
MaxSubs == 2
\* capacity of a subscriber's sink channel (chosen by the API user)
SinkCap == 1
\* number of most recent writes the model keeps of the outbound byte stream
WireWindow == 2
\* number of roster pushes the server sends
MaxPush == 2

\* the goroutines calling the session API after Dial has returned
Callers == {"caller1", "caller2"}
\* "roster" is the read loop of the roster layer (rfc6121/client.go:57-77)
Procs == {"dial", "router", "roster"} \cup Callers

(***************************************************************************)
(* Namespaces (client.go:26-33).                                           *)
(***************************************************************************)
nsStream == "http://etherx.jabber.org/streams"
nsClient == "jabber:client"
\* the namespace of a roster query (rfc6121/client.go:62)
nsRoster == "jabber:iq:roster"

(***************************************************************************)
(* fmt.Sprintf("%d", id): the decimal rendering of a counter, as a         *)
(* sequence of digit characters.                                           *)
(***************************************************************************)
Digit(d) == <<"0", "1", "2", "3", "4", "5", "6", "7", "8", "9">>[d + 1]

RECURSIVE FormatDecimal(_)
FormatDecimal(n) ==
    IF n < 10 THEN <<Digit(n)>>
    ELSE FormatDecimal(n \div 10) \o <<Digit(n % 10)>>

\* the id the generator sends for counter value n (client.go:114)
CookieOf(n) == FormatDecimal(n)

\* a generator that forgets to count
CookieStay(n) == n

\* the counter after an id was handed out (client.go:115)
CookieAdvance(n) == n + 1

(***************************************************************************)
(* strings.Split(version, ".")[0]: the characters before the first ".".    *)
(***************************************************************************)
RECURSIVE SplitFirst(_)
SplitFirst(s) ==
    IF s = <<>> \/ Head(s) = "." THEN <<>>
    ELSE <<Head(s)>> \o SplitFirst(Tail(s))

\* the value receiveStream returns for a stream opener (client.go:437-467);
\* "close" stands for the invalid-namespace path, which returns nil after
\* writing a stream error and calling Close
ReceiveStreamResult(t) ==
    IF t.local # "stream" THEN [err |-> "UnexpectedMessage", version |-> <<>>]
    ELSE IF t.space # nsStream THEN [err |-> "close", version |-> <<>>]
    ELSE IF t.version = <<>>
         THEN [err |-> "UnsupportedVersion", version |-> <<"0", ".", "9">>]
    ELSE IF SplitFirst(t.version) # <<"1">>
         THEN [err |-> "UnsupportedVersion", version |-> t.version]
    ELSE [err |-> "nil", version |-> <<>>]

NoResult == [err |-> "none", version |-> <<>>]

\* the start element t that startTLS or sasl got from nextStartElement
\* (client.go:345, 357): the function that read it and its local name
Token(fn, local) == [fn |-> fn, local |-> local]
NoToken == Token("", "")

\* the stream opener of a peer that follows RFC 6120
GoodOpener == [local |-> "stream", space |-> nsStream, version |-> <<"1", ".", "0">>]

\* the stream openers the peer may send
Versions == { <<>>, <<"1", ".", "0">>, <<"1", ".", "9">>, <<"2", ".", "0">>,
              <<"1", "0">> }
Openers ==
    [local : {"stream"}, space : {nsStream}, version : Versions]
    \cup { [local |-> "stream", space |-> nsClient, version |-> <<"1", ".", "0">>],
           [local |-> "features", space |-> nsStream, version |-> <<>>] }

(***************************************************************************)
(* Features: the set of advertised features; Includes and Requires are the *)
(* two predicates Dial uses.                                               *)
(***************************************************************************)
Includes(fs, name) == \E f \in fs : f.name = name
Requires(fs, name) == \E f \in fs : f.name = name /\ f.required

\* the features of a peer that asks for neither STARTTLS nor SASL
PlainFeatures == {[name |-> "bind", required |-> FALSE]}

FeatureSets ==
    { {},
      PlainFeatures,
      {[name |-> "starttls", required |-> TRUE]},
      {[name |-> "starttls", required |-> FALSE], [name |-> "sasl", required |-> TRUE]},
      {[name |-> "sasl", required |-> TRUE], [name |-> "bind", required |-> FALSE]},
      {[name |-> "sasl", required |-> FALSE]} }

\* a loop that tests for sasl first
NegotiationBranchSASLFirst(fs) ==
    IF Requires(fs, "sasl") THEN "sasl"
    ELSE IF Includes(fs, "starttls") THEN "startTLS"
    ELSE "goRead"

\* the branch Dial takes after parseFeatures (client.go:161-170)
NegotiationBranch(fs) ==
    IF Includes(fs, "starttls") THEN "startTLS"
    ELSE IF Requires(fs, "sasl") THEN "sasl"
    ELSE "goRead"

(***************************************************************************)
(* Stanzas as the router decodes them.                                     *)
(***************************************************************************)
JIDs == {"alice@example.org/abc"}

Stanza(kind, type, id, bindjid) ==
    [kind |-> kind, type |-> type, id |-> id, jid |-> bindjid, query |-> ""]

\* an IQ of type set whose payload is a roster query
RosterPush(id) == [Stanza("iq", "set", id, "") EXCEPT !.query = nsRoster]

\* the value of nv when no case of the switch matched (client.go:294-297)
NilStanza == Stanza("nil", "", <<>>, "")

\* an unmarshalling that finds no jid
UnmarshalNothing(iq) == ""

\* xml.Unmarshal(response.Inner, &bind); bind.JID (client.go:326-333)
UnmarshalBindJID(iq) == iq.jid

VARIABLES
    pc,          \* position of every goroutine
    iter,        \* iterations of Dial's loop started so far
    conn,        \* c.Conn: the outermost transport, "tcp" or "tls"
    decoderOn,   \* the transport c.decoder reads from
    features,    \* c.features
    rsResult,    \* what the last receiveStream call returned
    tok,         \* Dial: the element startTLS or sasl read last (its local t)
    tlsResult,   \* what the last startTLS call returned
    exchanges,   \* history: number of <starttls/> and of <auth/> requests begun
    closing,     \* c.closing
    tcpClosed,   \* the TCP connection has been closed
    wire,        \* the most recent writes to the transport, oldest first
    cookieNext,  \* id of generateCookies
    callbacks,   \* c.callbacks: the entries [id, ch] of the map id -> slot
    slots,       \* the reply channels made by SendIQ
    mu,          \* holder of the connection mutex, or "free"
    jid,         \* c.jid
    cur,         \* router: nv, the stanza decoded in this iteration (nil between iterations)
    chans,       \* c.subscribers.chans: the sinks, in order of subscription
    sinks,       \* contents of every sink channel
    cookie,      \* per goroutine: the local cookie / id argument
    reply,       \* per goroutine: the local reply channel (index in slots)
    opsLeft,     \* per caller: API calls still to make
    crashed,     \* the program has panicked
    issued,      \* history: the ids received from the generator, in order
    closeBegun,  \* history: number of calls of Close begun
    closeDone,   \* history: number of calls of Close that have returned
    tagsWritten, \* history: number of "</stream:stream>" put on the wire
    stanzas,     \* roster layer: c.stanzas, its sink (index in sinks, 0 before Wrap)
    pushesRead,  \* history: the ids of the roster pushes the router has read
    rosterReplies \* history: the arguments of the roster layer's SendIQReply calls

vars == <<pc, iter, conn, decoderOn, features, rsResult, tok, tlsResult, exchanges, closing,
          tcpClosed,
          wire, cookieNext, callbacks, slots, mu, jid, cur, chans, sinks,
          cookie, reply, opsLeft, crashed, issued, closeBegun, closeDone,
          tagsWritten, stanzas, pushesRead, rosterReplies>>

netVars == <<conn, decoderOn, features>>
dialVars == <<tok, tlsResult, exchanges>>
rosterVars == <<stanzas, pushesRead, rosterReplies>>
genVars == <<cookieNext, issued>>
closeVars == <<closing, closeBegun, closeDone, tagsWritten>>
cbVars == <<callbacks, slots, mu>>
subVars == <<chans, sinks>>
localVars == <<cookie, reply>>

(***************************************************************************)
(* The state after Dial has connected and built the Connection             *)
(* (client.go:133-145): generator at 0, empty callbacks, decoder on the    *)
(* TCP connection.                                                         *)
(***************************************************************************)
Init ==
    /\ pc = [p \in Procs |-> IF p = "dial" THEN "openStream"
                             ELSE IF p \in {"router", "roster"} THEN "off"
                             ELSE "idle"]
    /\ iter = 0
    /\ conn = "tcp"
    /\ decoderOn = "tcp"
    /\ features = {}
    /\ rsResult = NoResult
    /\ tok = NoToken
    /\ tlsResult = "none"
    /\ exchanges = [startTLS |-> 0, sasl |-> 0]
    /\ closing = FALSE
    /\ tcpClosed = FALSE
    /\ wire = <<>>
    /\ cookieNext = 0
    /\ callbacks = {}
    /\ slots = <<>>
    /\ mu = "free"
    /\ jid = ""
    /\ cur = NilStanza
    /\ chans = <<>>
    /\ sinks = <<>>
    /\ cookie = [p \in Procs |-> <<>>]
    /\ reply = [p \in Procs |-> 0]
    /\ opsLeft = [c \in Callers |-> MaxOps]
    /\ crashed = FALSE
    /\ issued = <<>>
    /\ closeBegun = 0
    /\ closeDone = 0
    /\ tagsWritten = 0
    /\ stanzas = 0
    /\ pushesRead = <<>>
    /\ rosterReplies = <<>>

Goto(p, l) == pc' = [pc EXCEPT ![p] = l]

\* a statement of goroutine p at label l; nothing runs after a panic
At(p, l) == ~crashed /\ pc[p] = l

\* goroutine p may make an API call: Dial has returned the Connection and p
\* is between calls
CanCall(p) ==
    /\ p \in Callers
    /\ ~crashed
    /\ pc[p] = "idle"
    /\ pc["dial"] = "returned"
    /\ opsLeft[p] > 0

\* the first statement of a function: p is at its label l, or p calls it now
Enters(p, l) == At(p, l) \/ CanCall(p)

Spend(p) ==
    opsLeft' = IF pc[p] = "idle" THEN [opsLeft EXCEPT ![p] = @ - 1] ELSE opsLeft

(***************************************************************************)
(* net.Conn.Write: one call puts its bytes on the wire as a unit; on a     *)
(* closed connection it fails and nothing is sent (the error is ignored).  *)
(***************************************************************************)
Chunk(p, part, id) == [by |-> p, part |-> part, id |-> id]

\* the last n elements of a sequence
LastN(w, n) == IF Len(w) <= n THEN w ELSE SubSeq(w, Len(w) - n + 1, Len(w))

Written(w, closed, ch) == IF closed THEN w ELSE LastN(Append(w, ch), WireWindow)

Write(p, part, id) == wire' = Written(wire, tcpClosed, Chunk(p, part, id))

(***************************************************************************)
(* Connection.reset (client.go:336-339).                                   *)
(***************************************************************************)
Reset(c) ==
    /\ decoderOn' = c
    /\ features' = {}

(***************************************************************************)
(* Connection.Close (client.go:470-485), called by API callers, by the     *)
(* router at end of stream and by receiveStream.  c.closing is read and    *)
(* written without synchronisation, so the read, the write of the closing  *)
(* tag and the assignment are separate steps.                              *)
(***************************************************************************)
\* where Close returns to in goroutine p
CloseReturn(p) ==
    IF p = "dial" THEN "parseFeatures"
    ELSE IF p = "router" THEN "done"
    ELSE "idle"

\* if c.closing { c.Conn.Close(); return }
CloseCheck(p) ==
    /\ Enters(p, "close_check")
    /\ Spend(p)
    /\ closeBegun' = closeBegun + 1
    /\ IF closing
       THEN /\ tcpClosed' = TRUE
            /\ closeDone' = closeDone + 1
            /\ Goto(p, CloseReturn(p))
       ELSE /\ tcpClosed' = tcpClosed
            /\ closeDone' = closeDone
            /\ Goto(p, "close_write")
    /\ UNCHANGED <<iter, netVars, rsResult, dialVars, closing, tagsWritten, wire, genVars,
                   cbVars, jid, cur, subVars, localVars, crashed, rosterVars>>

\* fmt.Fprint(c, "</stream:stream>")
CloseWrite(p) ==
    /\ At(p, "close_write")
    /\ Write(p, "stream_close", <<>>)
    /\ tagsWritten' = IF tcpClosed THEN tagsWritten ELSE tagsWritten + 1
    /\ Goto(p, "close_set")
    /\ UNCHANGED <<iter, netVars, rsResult, dialVars, closing, closeBegun, closeDone,
                   tcpClosed, genVars, cbVars, jid, cur, subVars, localVars,
                   opsLeft, crashed, rosterVars>>

\* a Close that returns without recording that the stream is closing
CloseSetForgets(p) ==
    /\ At(p, "close_set")
    /\ closeDone' = closeDone + 1
    /\ Goto(p, CloseReturn(p))
    /\ UNCHANGED <<iter, netVars, rsResult, dialVars, closing, closeBegun, tagsWritten,
                   tcpClosed, wire, genVars, cbVars, jid, cur, subVars, localVars,
                   opsLeft, crashed, rosterVars>>

\* c.closing = true
CloseSet(p) ==
    /\ At(p, "close_set")
    /\ closing' = TRUE
    /\ closeDone' = closeDone + 1
    /\ Goto(p, CloseReturn(p))
    /\ UNCHANGED <<iter, netVars, rsResult, dialVars, closeBegun, tagsWritten, tcpClosed,
                   wire, genVars, cbVars, jid, cur, subVars, localVars, opsLeft,
                   crashed, rosterVars>>

(***************************************************************************)
(* Dial's negotiation loop (client.go:156-171).  The values the functions  *)
(* return are discarded by Dial, as in the source.                         *)
(***************************************************************************)
\* client.openStream() (client.go:416-421)
OpenStream ==
    /\ At("dial", "openStream")
    /\ iter' = iter + 1
    /\ Write("dial", "stream_open", <<>>)
    /\ Goto("dial", "receiveStream")
    /\ UNCHANGED <<netVars, rsResult, dialVars, closeVars, tcpClosed, genVars, cbVars,
                   jid, cur, subVars, localVars, opsLeft, crashed, rosterVars>>

\* client.receiveStream(): the peer sent a start element t of the set T
ReceiveStreamElement(T) ==
    /\ At("dial", "receiveStream")
    /\ \E t \in T :
         /\ rsResult' = ReceiveStreamResult(t)
         /\ Goto("dial", IF ReceiveStreamResult(t).err = "close"
                         THEN "rs_error" ELSE "parseFeatures")
    /\ UNCHANGED <<iter, netVars, dialVars, closeVars, tcpClosed, wire, genVars, cbVars,
                   jid, cur, subVars, localVars, opsLeft, crashed, rosterVars>>

\* client.receiveStream(): decoder.Token failed, nextStartElement returns
\* (nil, err) and receiveStream returns err (client.go:432-435)
ReceiveStreamError ==
    /\ At("dial", "receiveStream")
    /\ rsResult' = [err |-> "io", version |-> <<>>]
    /\ Goto("dial", "parseFeatures")
    /\ UNCHANGED <<iter, netVars, dialVars, closeVars, tcpClosed, wire, genVars, cbVars,
                   jid, cur, subVars, localVars, opsLeft, crashed, rosterVars>>

\* client.receiveStream(): the peer closed the stream, nextStartElement
\* returns (nil, nil) and t.Name is a nil dereference (client.go:397, 437)
ReceiveStreamEnd ==
    /\ At("dial", "receiveStream")
    /\ crashed' = TRUE
    /\ UNCHANGED <<pc, iter, netVars, rsResult, dialVars, closeVars, tcpClosed, wire,
                   genVars, cbVars, jid, cur, subVars, localVars, opsLeft, rosterVars>>

\* receiveStream on a wrong namespace: write the stream error, then Close
\* (client.go:441-447)
ReceiveStreamBadNS ==
    /\ At("dial", "rs_error")
    /\ Write("dial", "stream_error", <<>>)
    /\ Goto("dial", "close_check")
    /\ UNCHANGED <<iter, netVars, rsResult, dialVars, closeVars, tcpClosed, genVars, cbVars,
                   jid, cur, subVars, localVars, opsLeft, crashed, rosterVars>>

\* client.parseFeatures(), then the two tests of Dial (client.go:160-170);
\* the server stops asking for restarts after MaxIter iterations
ParseFeatures(F) ==
    /\ At("dial", "parseFeatures")
    /\ \E fs \in F :
         /\ iter >= MaxIter => NegotiationBranch(fs) = "goRead"
         /\ features' = fs
         /\ Goto("dial", NegotiationBranch(fs))
    /\ UNCHANGED <<iter, conn, decoderOn, rsResult, dialVars, closeVars, tcpClosed, wire,
                   genVars, cbVars, jid, cur, subVars, localVars, opsLeft, crashed, rosterVars>>

\* startTLS: fmt.Fprint(c, "<starttls .../>") (client.go:356)
StartTLSWrite ==
    /\ At("dial", "startTLS")
    /\ Write("dial", "starttls", <<>>)
    /\ exchanges' = [exchanges EXCEPT !.startTLS = @ + 1]
    /\ Goto("dial", "tls_read")
    /\ UNCHANGED <<iter, netVars, rsResult, tok, tlsResult, closeVars, tcpClosed, genVars, cbVars,
                   jid, cur, subVars, localVars, opsLeft, crashed, rosterVars>>

\* startTLS: t, _ := c.nextStartElement(); the name of t is tested and
\* nothing is done with the outcome (client.go:357-361)
StartTLSRead ==
    /\ At("dial", "tls_read")
    /\ \E local \in {"proceed", "failure"} :
         tok' = Token("startTLS", local)
    /\ Goto("dial", "tls_handshake")
    /\ UNCHANGED <<iter, netVars, rsResult, tlsResult, exchanges, closeVars, tcpClosed, wire,
                   genVars, cbVars, jid, cur, subVars, localVars, opsLeft, crashed, rosterVars>>

\* startTLS: nextStartElement returned nil, t.Name is a nil dereference
StartTLSReadNil ==
    /\ At("dial", "tls_read")
    /\ crashed' = TRUE
    /\ UNCHANGED <<pc, iter, netVars, rsResult, dialVars, closeVars, tcpClosed, wire,
                   genVars, cbVars, jid, cur, subVars, localVars, opsLeft, rosterVars>>

\* startTLS: handshake, certificate chain and host name (client.go:363-380);
\* on success the transport is replaced and the connection reset; Dial
\* continues the loop whatever startTLS returned
TLSOutcomes == {"ok", "handshake", "unverified", "hostname"}

StartTLSHandshake ==
    /\ At("dial", "tls_handshake")
    /\ \E o \in TLSOutcomes :
         /\ tlsResult' = o
         /\ IF o = "ok"
            THEN /\ conn' = "tls"
                 /\ Reset("tls")
            ELSE UNCHANGED netVars
    /\ Goto("dial", "openStream")
    /\ UNCHANGED <<iter, rsResult, tok, exchanges, closeVars, tcpClosed, wire, genVars, cbVars,
                   jid, cur, subVars, localVars, opsLeft, crashed, rosterVars>>

\* sasl: fmt.Fprintf(c, "<auth ...>") (client.go:342-344)
SASLWrite ==
    /\ At("dial", "sasl")
    /\ Write("dial", "auth", <<>>)
    /\ exchanges' = [exchanges EXCEPT !.sasl = @ + 1]
    /\ Goto("dial", "sasl_read")
    /\ UNCHANGED <<iter, netVars, rsResult, tok, tlsResult, closeVars, tcpClosed, genVars, cbVars,
                   jid, cur, subVars, localVars, opsLeft, crashed, rosterVars>>

\* sasl: t, _ := c.nextStartElement(); reset on success (client.go:345-350)
SASLRead ==
    /\ At("dial", "sasl_read")
    /\ \E local \in {"success", "failure"} :
         /\ tok' = Token("sasl", local)
         /\ IF local = "success"
            THEN /\ Reset(conn)
                 /\ conn' = conn
            ELSE UNCHANGED netVars
    /\ Goto("dial", "openStream")
    /\ UNCHANGED <<iter, rsResult, tlsResult, exchanges, closeVars, tcpClosed, wire, genVars,
                   cbVars,
                   jid, cur, subVars, localVars, opsLeft, crashed, rosterVars>>

\* sasl: nextStartElement returned nil, t.Name is a nil dereference
SASLReadNil ==
    /\ At("dial", "sasl_read")
    /\ crashed' = TRUE
    /\ UNCHANGED <<pc, iter, netVars, rsResult, dialVars, closeVars, tcpClosed, wire,
                   genVars, cbVars, jid, cur, subVars, localVars, opsLeft, rosterVars>>

\* go client.read(); client.bind() begins with SendIQ (client.go:173-174)
GoRead ==
    /\ At("dial", "goRead")
    /\ pc' = [pc EXCEPT !["dial"] = "iq_cookie", !["router"] = "read"]
    /\ UNCHANGED <<iter, netVars, rsResult, dialVars, closeVars, tcpClosed, wire, genVars,
                   cbVars, jid, cur, subVars, localVars, opsLeft, crashed, rosterVars>>

(***************************************************************************)
(* The callbacks map and the reply channels.                               *)
(***************************************************************************)
\* make(chan *IQ, 1)
ReplyCap == 1

\* a reply channel: its buffer, whether it was closed, and the number of
\* values ever sent on it
NewSlot == [buf |-> <<>>, closed |-> FALSE, sent |-> 0]

\* a lookup that ignores the id
LookupAny(cb, id) == cb

\* ch, ok := c.callbacks[id]
Lookup(cb, id) == {e \in cb : e.id = id}

\* a registration that stores nothing
PutNothing(cb, id, ch) == cb

\* c.callbacks[id] = ch (client.go:513)
Put(cb, id, ch) == {e \in cb : e.id # id} \cup {[id |-> id, ch |-> ch]}

\* a delete that leaves the entry in the map
DeleteNothing(cb, id) == cb

\* delete(c.callbacks, id) (client.go:305)
Delete(cb, id) == {e \in cb : e.id # id}

\* ch <- iq on the channel with index i
SlotSend(sl, i, iq) ==
    [sl EXCEPT ![i].buf = Append(@, iq), ![i].sent = @ + 1]

\* close(ch) for every ch of the map (client.go:275-277)
CloseAll(sl, cb) ==
    [i \in DOMAIN sl |->
        IF \E e \in cb : e.ch = i THEN [sl[i] EXCEPT !.closed = TRUE] ELSE sl[i]]

(***************************************************************************)
(* getCookie (client.go:314-316): receive the next id from generateCookies *)
(* (client.go:110-120), which then increments its counter.                 *)
(***************************************************************************)
GetCookie(p) ==
    /\ cookie' = [cookie EXCEPT ![p] = CookieOf(cookieNext)]
    /\ cookieNext' = CookieAdvance(cookieNext)
    /\ issued' = Append(issued, CookieOf(cookieNext))

(***************************************************************************)
(* Connection.SendIQ (client.go:509-526), called by bind and by API        *)
(* callers.                                                                *)
(***************************************************************************)
\* cookie := c.getCookie(); reply := make(chan *IQ, 1)
SendIQCookie(p) ==
    /\ Enters(p, "iq_cookie")
    /\ Spend(p)
    /\ GetCookie(p)
    /\ slots' = Append(slots, NewSlot)
    /\ reply' = [reply EXCEPT ![p] = Len(slots) + 1]
    /\ Goto(p, "iq_lock")
    /\ UNCHANGED <<iter, netVars, rsResult, dialVars, closeVars, tcpClosed, wire, callbacks,
                   mu, jid, cur, subVars, crashed, rosterVars>>

\* c.Lock(); c.callbacks[cookie] = reply; c.Unlock(): the goroutine waits
\* for the mutex, and nothing but the map is touched while it is held
SendIQRegister(p) ==
    /\ At(p, "iq_lock")
    /\ mu = "free"
    /\ callbacks' = Put(callbacks, cookie[p], reply[p])
    /\ Goto(p, "iq_open")
    /\ UNCHANGED <<iter, netVars, rsResult, dialVars, closeVars, tcpClosed, wire, genVars,
                   slots, mu, jid, cur, subVars, localVars, opsLeft, crashed, rosterVars>>

\* fmt.Fprintf(c, "<iq %s from='%s' type='%s' id='%s'>", ...)
SendIQOpen(p) ==
    /\ At(p, "iq_open")
    /\ Write(p, "iq_open", cookie[p])
    /\ Goto(p, "iq_payload")
    /\ UNCHANGED <<iter, netVars, rsResult, dialVars, closeVars, tcpClosed, genVars, cbVars,
                   jid, cur, subVars, localVars, opsLeft, crashed, rosterVars>>

\* xml.NewEncoder(c).Encode(value)
SendIQPayload(p) ==
    /\ At(p, "iq_payload")
    /\ Write(p, "iq_payload", <<>>)
    /\ Goto(p, "iq_close")
    /\ UNCHANGED <<iter, netVars, rsResult, dialVars, closeVars, tcpClosed, genVars, cbVars,
                   jid, cur, subVars, localVars, opsLeft, crashed, rosterVars>>

\* fmt.Fprintf(c, "</iq>"); return reply, cookie
SendIQClose(p) ==
    /\ At(p, "iq_close")
    /\ Write(p, "iq_close", <<>>)
    /\ Goto(p, "iq_await")
    /\ UNCHANGED <<iter, netVars, rsResult, dialVars, closeVars, tcpClosed, genVars, cbVars,
                   jid, cur, subVars, localVars, opsLeft, crashed, rosterVars>>

(***************************************************************************)
(* The caller of SendIQ receives from the channel it got back.             *)
(***************************************************************************)
\* bind: response := <-ch; c.jid = bind.JID (client.go:325-333); Dial returns
BindReceive ==
    /\ At("dial", "iq_await")
    /\ slots[reply["dial"]].buf # <<>>
    /\ jid' = UnmarshalBindJID(Head(slots[reply["dial"]].buf))
    /\ slots' = [slots EXCEPT ![reply["dial"]].buf = Tail(@)]
    /\ cookie' = [cookie EXCEPT !["dial"] = <<>>]
    /\ reply' = [reply EXCEPT !["dial"] = 0]
    /\ Goto("dial", "returned")
    /\ UNCHANGED <<iter, netVars, rsResult, dialVars, closeVars, tcpClosed, wire, genVars,
                   callbacks, mu, cur, subVars, opsLeft, crashed, rosterVars>>

\* bind: the channel was closed, response is nil and response.Inner is a
\* nil dereference (client.go:325, 332)
BindReceiveNil ==
    /\ At("dial", "iq_await")
    /\ slots[reply["dial"]].buf = <<>>
    /\ slots[reply["dial"]].closed
    /\ crashed' = TRUE
    /\ UNCHANGED <<pc, iter, netVars, rsResult, dialVars, closeVars, tcpClosed, wire,
                   genVars, cbVars, jid, cur, subVars, localVars, opsLeft, rosterVars>>

\* an API caller: <-ch yields the response, or nil once the channel is closed
AwaitReply(p) ==
    /\ p \in Callers
    /\ At(p, "iq_await")
    /\ \/ /\ slots[reply[p]].buf # <<>>
          /\ slots' = [slots EXCEPT ![reply[p]].buf = Tail(@)]
       \/ /\ slots[reply[p]].buf = <<>>
          /\ slots[reply[p]].closed
          /\ slots' = slots
    /\ cookie' = [cookie EXCEPT ![p] = <<>>]
    /\ reply' = [reply EXCEPT ![p] = 0]
    /\ Goto(p, "idle")
    /\ UNCHANGED <<iter, netVars, rsResult, dialVars, closeVars, tcpClosed, wire, genVars,
                   callbacks, mu, jid, cur, subVars, opsLeft, crashed, rosterVars>>

(***************************************************************************)
(* Connection.SendIQReply (client.go:529-541).                             *)
(***************************************************************************)
\* the ids and values SendIQReply is called with
ReplyIds == {<<"p", "u", "s", "h">>}

\* where SendIQReply returns to in goroutine p
ReplyReturn(p) == IF p = "roster" THEN "range" ELSE "idle"

\* fmt.Fprintf(c, "<iq %s from='%s' type='%s' id='%s'>", ...); the payload
\* is written only if value != nil
SendIQReplyOpen(p) ==
    /\ CanCall(p)
    /\ Spend(p)
    /\ \E id \in ReplyIds, hasValue \in BOOLEAN :
         /\ Write(p, "iq_open", id)
         /\ Goto(p, IF hasValue THEN "rp_payload" ELSE "rp_close")
    /\ UNCHANGED <<iter, netVars, rsResult, dialVars, closeVars, tcpClosed, genVars, cbVars,
                   jid, cur, subVars, localVars, crashed, rosterVars>>

SendIQReplyPayload(p) ==
    /\ At(p, "rp_payload")
    /\ Write(p, "iq_payload", <<>>)
    /\ Goto(p, "rp_close")
    /\ UNCHANGED <<iter, netVars, rsResult, dialVars, closeVars, tcpClosed, genVars, cbVars,
                   jid, cur, subVars, localVars, opsLeft, crashed, rosterVars>>

SendIQReplyClose(p) ==
    /\ At(p, "rp_close")
    /\ Write(p, "iq_close", <<>>)
    /\ Goto(p, ReplyReturn(p))
    /\ UNCHANGED <<iter, netVars, rsResult, dialVars, closeVars, tcpClosed, genVars, cbVars,
                   jid, cur, subVars, localVars, opsLeft, crashed, rosterVars>>

(***************************************************************************)
(* Connection.SendPresence (client.go:543-550).                            *)
(***************************************************************************)
\* p.Id = c.getCookie()
SendPresenceCookie(p) ==
    /\ CanCall(p)
    /\ Spend(p)
    /\ GetCookie(p)
    /\ Goto(p, "pr_write")
    /\ UNCHANGED <<iter, netVars, rsResult, dialVars, closeVars, tcpClosed, wire, cbVars, jid,
                   cur, subVars, reply, crashed, rosterVars>>

\* xml.NewEncoder(c).Encode(p); return p.Id, nil
SendPresenceWrite(p) ==
    /\ At(p, "pr_write")
    /\ Write(p, "presence", cookie[p])
    /\ cookie' = [cookie EXCEPT ![p] = <<>>]
    /\ Goto(p, "idle")
    /\ UNCHANGED <<iter, netVars, rsResult, dialVars, closeVars, tcpClosed, genVars, cbVars,
                   jid, cur, subVars, reply, opsLeft, crashed, rosterVars>>

(***************************************************************************)
(* The subscribers (client.go:67-87).                                      *)
(***************************************************************************)
\* a fan-out that gives up at the first full channel
SendAllUntilFull(sk, chs, stanza) ==
    [i \in DOMAIN sk |->
        IF /\ \E k \in DOMAIN chs : chs[k] = i
           /\ \A j \in DOMAIN sk : j <= i => Len(sk[j]) < SinkCap
        THEN Append(sk[i], stanza)
        ELSE sk[i]]

\* select { case ch <- stanza: default: } for every ch of chans, in order
SendAll(sk, chs, stanza) ==
    [i \in DOMAIN sk |->
        IF (\E k \in DOMAIN chs : chs[k] = i) /\ Len(sk[i]) < SinkCap
        THEN Append(sk[i], stanza)
        ELSE sk[i]]

\* SubscribeStanzas(ch) with a fresh channel ch (client.go:552-554, 83-87),
\* called by a user of the Connection Dial returned
Subscribe ==
    /\ ~crashed
    /\ pc["dial"] = "returned"
    /\ Len(chans) < MaxSubs
    /\ sinks' = Append(sinks, <<>>)
    /\ chans' = Append(chans, Len(sinks) + 1)
    /\ UNCHANGED <<pc, iter, netVars, rsResult, dialVars, closeVars, tcpClosed, wire,
                   genVars, cbVars, jid, cur, localVars, opsLeft, crashed, rosterVars>>

\* whether the sink channel i has been closed: the program has no statement
\* that closes a channel of subscribers.chans; the router's end-of-stream
\* path closes the channels of callbacks only (client.go:275-277)
SinkClosed(i) == FALSE

\* the owner of sink i receives one stanza from it
SinkReceive(i) ==
    /\ ~crashed
    /\ i \in DOMAIN sinks
    /\ sinks[i] # <<>>
    /\ sinks' = [sinks EXCEPT ![i] = Tail(@)]
    /\ UNCHANGED <<pc, iter, netVars, rsResult, dialVars, closeVars, tcpClosed, wire,
                   genVars, cbVars, jid, cur, chans, localVars, opsLeft, crashed, rosterVars>>

(***************************************************************************)
(* The router, Connection.read (client.go:269-312).                        *)
(***************************************************************************)
\* the ids the peer may put on a roster push: one of its own, and one equal
\* to the id of the bind IQ
PushIds == {<<"p", "u", "s", "h">>, CookieOf(0)}

\* t.Query.Space == "jabber:iq:roster" && t.Type == "set", for an *IQ t
\* (rfc6121/client.go:61-62)
IsRosterPush(st) == st.kind = "iq" /\ st.query = nsRoster /\ st.type = "set"

\* the server sends at most MaxPush roster pushes
StillSent(st) == IsRosterPush(st) => Len(pushesRead) < MaxPush

\* the ids the peer may put on a response: every id handed out so far and
\* the one the generator would hand out next
ResponseIds == {CookieOf(k) : k \in 0..cookieNext}

\* the elements the peer may send in a session, as the router decodes them;
\* an element the switch does not know leaves nv nil
Inbound ==
    {Stanza("iq", "result", id, j) : id \in ResponseIds, j \in JIDs}
    \cup {Stanza("iq", "error", id, "") : id \in ResponseIds}
    \cup {Stanza("iq", "get", CookieOf(0), "")}
    \cup {RosterPush(id) : id \in PushIds}
    \cup {Stanza("message", "chat", <<>>, ""),
          Stanza("streamerror", "", <<>>, ""),
          NilStanza}

\* a router that takes every IQ for a response
IsAnyIQ(nv) == nv.kind = "iq"

\* iq, ok := nv.(*IQ); ok && (iq.Type == "result" || iq.Type == "error")
IsResponse(nv) == nv.kind = "iq" /\ nv.type \in {"result", "error"}

\* t, _ := c.nextStartElement(); the switch; c.decoder.DecodeElement(nv, t)
\* yield a response IQ; c.Lock() (client.go:271-302).  Reading and decoding
\* touch only the router's locals, so they form one step with the Lock.
RouterReadResponse ==
    /\ At("router", "read")
    /\ mu = "free"
    /\ \E nv \in Inbound :
         /\ IsResponse(nv)
         /\ cur' = nv
    /\ mu' = "router"
    /\ Goto("router", "lookup")
    /\ UNCHANGED <<iter, netVars, rsResult, dialVars, closeVars, tcpClosed, wire, genVars,
                   callbacks, slots, jid, subVars, localVars, opsLeft, crashed, rosterVars>>

\* the element read is no response IQ: c.subscribers.send(nv)
\* (client.go:271-300, 309)
RouterFanOut ==
    /\ At("router", "read")
    /\ \E nv \in Inbound :
         /\ ~IsResponse(nv)
         /\ StillSent(nv)
         /\ sinks' = SendAll(sinks, chans, nv)
         /\ pushesRead' = IF IsRosterPush(nv) THEN Append(pushesRead, nv.id)
                          ELSE pushesRead
    /\ UNCHANGED <<pc, iter, netVars, rsResult, dialVars, closeVars, tcpClosed, wire,
                   genVars, cbVars, jid, cur, chans, localVars, opsLeft, crashed,
                   stanzas, rosterReplies>>

\* t == nil: the peer closed the stream or the read failed; c.Lock()
\* (client.go:273-274)
RouterReadEnd ==
    /\ At("router", "read")
    /\ mu = "free"
    /\ mu' = "router"
    /\ Goto("router", "eos_close")
    /\ UNCHANGED <<iter, netVars, rsResult, dialVars, closeVars, tcpClosed, wire, genVars,
                   callbacks, slots, jid, cur, subVars, localVars, opsLeft, crashed, rosterVars>>

\* if ch, ok := c.callbacks[nv.ID()]; ok { ch <- iq: the send waits while
\* the buffer is full, and panics if the channel is closed (client.go:303-304)
RouterDeliver ==
    /\ At("router", "lookup")
    /\ \E e \in Lookup(callbacks, cur.id) :
         IF slots[e.ch].closed
         THEN /\ crashed' = TRUE
              /\ UNCHANGED <<pc, slots>>
         ELSE /\ Len(slots[e.ch].buf) < ReplyCap
              /\ slots' = SlotSend(slots, e.ch, cur)
              /\ Goto("router", "delete")
              /\ crashed' = crashed
    /\ UNCHANGED <<iter, netVars, rsResult, dialVars, closeVars, tcpClosed, wire, genVars,
                   callbacks, mu, jid, cur, subVars, localVars, opsLeft, rosterVars>>

\* the id is not a key of callbacks: c.Unlock() (client.go:303, 307)
RouterNoCallback ==
    /\ At("router", "lookup")
    /\ Lookup(callbacks, cur.id) = {}
    /\ mu' = "free"
    /\ cur' = NilStanza
    /\ Goto("router", "read")
    /\ UNCHANGED <<iter, netVars, rsResult, dialVars, closeVars, tcpClosed, wire, genVars,
                   callbacks, slots, jid, subVars, localVars, opsLeft, crashed, rosterVars>>

\* delete(c.callbacks, nv.ID()) }
RouterDelete ==
    /\ At("router", "delete")
    /\ callbacks' = Delete(callbacks, cur.id)
    /\ Goto("router", "unlock")
    /\ UNCHANGED <<iter, netVars, rsResult, dialVars, closeVars, tcpClosed, wire, genVars,
                   slots, mu, jid, cur, subVars, localVars, opsLeft, crashed, rosterVars>>

\* c.Unlock() (client.go:307)
RouterUnlock ==
    /\ At("router", "unlock")
    /\ mu' = "free"
    /\ cur' = NilStanza
    /\ Goto("router", "read")
    /\ UNCHANGED <<iter, netVars, rsResult, dialVars, closeVars, tcpClosed, wire, genVars,
                   callbacks, slots, jid, subVars, localVars, opsLeft, crashed, rosterVars>>

\* a router that closes the pending channels and goes on reading
RouterEndCloseResumes ==
    /\ At("router", "eos_close")
    /\ slots' = CloseAll(slots, callbacks)
    /\ mu' = "free"
    /\ Goto("router", "read")
    /\ UNCHANGED <<iter, netVars, rsResult, dialVars, closeVars, tcpClosed, wire, genVars,
                   callbacks, jid, cur, subVars, localVars, opsLeft, crashed, rosterVars>>

\* for _, ch := range c.callbacks { close(ch) }; then c.Close() and return,
\* with the mutex still locked (client.go:275-279)
RouterEndClose ==
    /\ At("router", "eos_close")
    /\ slots' = CloseAll(slots, callbacks)
    /\ Goto("router", "close_check")
    /\ UNCHANGED <<iter, netVars, rsResult, dialVars, closeVars, tcpClosed, wire, genVars,
                   callbacks, mu, jid, cur, subVars, localVars, opsLeft, crashed, rosterVars>>

(***************************************************************************)
(* The roster layer (rfc6121/client.go:36-77): Wrap subscribes a channel   *)
(* and starts a goroutine that ranges over it.  SinkCap stands for the     *)
(* capacity of every sink, the roster layer's included.                    *)
(***************************************************************************)
\* Wrap(c), called with the Connection Dial returned: go conn.read();
\* c.SubscribeStanzas(conn.stanzas) (rfc6121/client.go:36-44, 46-53)
Wrap ==
    /\ ~crashed
    /\ pc["dial"] = "returned"
    /\ pc["roster"] = "off"
    /\ sinks' = Append(sinks, <<>>)
    /\ chans' = Append(chans, Len(sinks) + 1)
    /\ stanzas' = Len(sinks) + 1
    /\ Goto("roster", "range")
    /\ UNCHANGED <<iter, netVars, rsResult, dialVars, closeVars, tcpClosed, wire,
                   genVars, cbVars, jid, cur, localVars, opsLeft, crashed,
                   pushesRead, rosterReplies>>

\* for stanza := range c.stanzas; the switch: a roster push is answered,
\* anything else in Inbound is passed over (rfc6121/client.go:58-67)
RosterReceive ==
    /\ At("roster", "range")
    /\ sinks[stanzas] # <<>>
    /\ LET stanza == Head(sinks[stanzas])
       IN  /\ sinks' = [sinks EXCEPT ![stanzas] = Tail(@)]
           /\ IF IsRosterPush(stanza)
              THEN /\ cookie' = [cookie EXCEPT !["roster"] = stanza.id]
                   /\ Goto("roster", "rp_open")
              ELSE UNCHANGED <<cookie, pc>>
    /\ UNCHANGED <<iter, netVars, rsResult, dialVars, closeVars, tcpClosed, wire,
                   genVars, cbVars, jid, cur, chans, reply, opsLeft, crashed,
                   rosterVars>>

\* the arguments of c.SendIQReply("", "result", stanza.ID(), nil)
\* (rfc6121/client.go:66)
RosterReplyArgs(id) == [to |-> "", type |-> "result", id |-> id, hasValue |-> FALSE]

\* the call of SendIQReply and its first write (rfc6121/client.go:66,
\* rfc6120/client.go:530-538)
RosterReply ==
    /\ At("roster", "rp_open")
    /\ LET args == RosterReplyArgs(cookie["roster"])
       IN  /\ Write("roster", "iq_open", args.id)
           /\ rosterReplies' = Append(rosterReplies, args)
           /\ Goto("roster", IF args.hasValue THEN "rp_payload" ELSE "rp_close")
    /\ cookie' = [cookie EXCEPT !["roster"] = <<>>]
    /\ UNCHANGED <<iter, netVars, rsResult, dialVars, closeVars, tcpClosed, genVars,
                   cbVars, jid, cur, subVars, reply, opsLeft, crashed, stanzas,
                   pushesRead>>

RosterStep ==
    \/ Wrap
    \/ RosterReceive
    \/ RosterReply
    \/ SendIQReplyClose("roster")

(***************************************************************************)
(* The earlier client, package rfc6120/client (src/rfc6120/client/         *)
(* client.go).  Connect runs the negotiation loop of Dial (lines 111-125   *)
(* are its statements), SendIQ writes as above after its critical section, *)
(* and the router sends every stanza that is no response on the unbuffered *)
(* channel c.Stream.  A sync.Mutex has no owner: Unlock releases it        *)
(* whoever locked it, and Unlock of an unlocked mutex is a fatal error.    *)
(***************************************************************************)
\* c.Lock() by goroutine p
MutexLock(p) == mu = "free" /\ mu' = p

\* c.Unlock(): fatal error if the mutex is not locked
MutexUnlock ==
    IF mu = "free"
    THEN crashed' = TRUE /\ mu' = mu
    ELSE crashed' = crashed /\ mu' = "free"

\* go conn.read(); conn.Bind() begins with SendIQ (lines 127-128)
OldGoRead ==
    /\ At("dial", "goRead")
    /\ pc' = [pc EXCEPT !["dial"] = "iq_cookie", !["router"] = "old_read"]
    /\ UNCHANGED <<iter, netVars, rsResult, dialVars, closeVars, tcpClosed, wire,
                   genVars, callbacks, slots, mu, jid, cur, subVars, localVars,
                   opsLeft, crashed, rosterVars>>

\* SendIQ: c.Lock() (line 439)
OldSendIQLock(p) ==
    /\ At(p, "iq_lock")
    /\ MutexLock(p)
    /\ Goto(p, "old_put")
    /\ UNCHANGED <<iter, netVars, rsResult, dialVars, closeVars, tcpClosed, wire,
                   genVars, callbacks, slots, jid, cur, subVars, localVars, opsLeft,
                   crashed, rosterVars>>

\* SendIQ: c.callbacks[cookie] = reply (line 440)
OldSendIQPut(p) ==
    /\ At(p, "old_put")
    /\ callbacks' = Put(callbacks, cookie[p], reply[p])
    /\ Goto(p, "old_iq_unlock")
    /\ UNCHANGED <<iter, netVars, rsResult, dialVars, closeVars, tcpClosed, wire,
                   genVars, slots, mu, jid, cur, subVars, localVars, opsLeft, crashed,
                   rosterVars>>

\* SendIQ: c.Unlock() (line 441)
OldSendIQUnlock(p) ==
    /\ At(p, "old_iq_unlock")
    /\ MutexUnlock
    /\ pc' = IF mu = "free" THEN pc ELSE [pc EXCEPT ![p] = "iq_open"]
    /\ UNCHANGED <<iter, netVars, rsResult, dialVars, closeVars, tcpClosed, wire,
                   genVars, callbacks, slots, jid, cur, subVars, localVars, opsLeft,
                   rosterVars>>

\* t, _ := c.NextStartElement(); the switch; DecodeElement: a response IQ;
\* c.Lock() (lines 226-248)
OldRouterReadResponse ==
    /\ At("router", "old_read")
    /\ MutexLock("router")
    /\ \E nv \in Inbound :
         /\ IsResponse(nv)
         /\ cur' = nv
    /\ Goto("router", "old_lookup")
    /\ UNCHANGED <<iter, netVars, rsResult, dialVars, closeVars, tcpClosed, wire,
                   genVars, callbacks, slots, jid, subVars, localVars, opsLeft,
                   crashed, rosterVars>>

\* the element read is no response IQ: the router comes to c.Stream <- nv
\* without locking (lines 226-247, 253-254)
OldRouterReadOther ==
    /\ At("router", "old_read")
    /\ \E nv \in Inbound :
         /\ ~IsResponse(nv)
         /\ cur' = nv
    /\ Goto("router", "old_send")
    /\ UNCHANGED <<iter, netVars, rsResult, dialVars, closeVars, tcpClosed, wire,
                   genVars, callbacks, slots, mu, jid, subVars, localVars, opsLeft,
                   crashed, rosterVars>>

\* NextStartElement returned nil (end of stream or read error): t.Name is a
\* nil dereference (lines 226, 229)
OldRouterReadEnd ==
    /\ At("router", "old_read")
    /\ crashed' = TRUE
    /\ UNCHANGED <<pc, iter, netVars, rsResult, dialVars, closeVars, tcpClosed, wire,
                   genVars, callbacks, slots, mu, jid, cur, subVars, localVars,
                   opsLeft, rosterVars>>

\* if ch, ok := c.callbacks[nv.ID()]; ok { ch <- iq (lines 249-250)
OldRouterDeliver ==
    /\ At("router", "old_lookup")
    /\ \E e \in Lookup(callbacks, cur.id) :
         /\ Len(slots[e.ch].buf) < ReplyCap
         /\ slots' = SlotSend(slots, e.ch, cur)
    /\ Goto("router", "old_delete")
    /\ UNCHANGED <<iter, netVars, rsResult, dialVars, closeVars, tcpClosed, wire,
                   genVars, callbacks, mu, jid, cur, subVars, localVars, opsLeft,
                   crashed, rosterVars>>

\* delete(c.callbacks, nv.ID()) } (line 251)
OldRouterDelete ==
    /\ At("router", "old_delete")
    /\ callbacks' = Delete(callbacks, cur.id)
    /\ Goto("router", "old_unlock")
    /\ UNCHANGED <<iter, netVars, rsResult, dialVars, closeVars, tcpClosed, wire,
                   genVars, slots, mu, jid, cur, subVars, localVars, opsLeft, crashed,
                   rosterVars>>

\* the id is no key of callbacks: on to the Unlock (lines 249, 252)
OldRouterNoCallback ==
    /\ At("router", "old_lookup")
    /\ Lookup(callbacks, cur.id) = {}
    /\ Goto("router", "old_unlock")
    /\ UNCHANGED <<iter, netVars, rsResult, dialVars, closeVars, tcpClosed, wire,
                   genVars, callbacks, slots, mu, jid, cur, subVars, localVars,
                   opsLeft, crashed, rosterVars>>

\* c.Stream <- nv: the send on the unbuffered channel completes when the
\* user of the Connection receives from c.Stream (line 254)
OldRouterStreamSend ==
    /\ At("router", "old_send")
    /\ Goto("router", "old_unlock")
    /\ UNCHANGED <<iter, netVars, rsResult, dialVars, closeVars, tcpClosed, wire,
                   genVars, callbacks, slots, mu, jid, cur, subVars, localVars,
                   opsLeft, crashed, rosterVars>>

\* c.Unlock() at the end of the iteration, on every path (line 256)
OldRouterUnlock ==
    /\ At("router", "old_unlock")
    /\ MutexUnlock
    /\ IF mu = "free"
       THEN UNCHANGED <<pc, cur>>
       ELSE /\ cur' = NilStanza
            /\ Goto("router", "old_read")
    /\ UNCHANGED <<iter, netVars, rsResult, dialVars, closeVars, tcpClosed, wire,
                   genVars, callbacks, slots, jid, subVars, localVars, opsLeft,
                   rosterVars>>

OldRouterStep ==
    \/ OldRouterReadResponse
    \/ OldRouterReadOther
    \/ OldRouterReadEnd
    \/ OldRouterDeliver
    \/ OldRouterDelete
    \/ OldRouterNoCallback
    \/ OldRouterStreamSend
    \/ OldRouterUnlock

\* SendIQ of the earlier client, called by Bind and by API callers
\* (lines 436-453)
OldSendIQ(p) ==
    \/ SendIQCookie(p)
    \/ OldSendIQLock(p)
    \/ OldSendIQPut(p)
    \/ OldSendIQUnlock(p)
    \/ SendIQOpen(p)
    \/ SendIQPayload(p)
    \/ SendIQClose(p)

(***************************************************************************)
(* The program.                                                            *)
(***************************************************************************)
\* Dial with a peer that sends the openers T and the feature sets F
Negotiate(T, F) ==
    \/ OpenStream
    \/ ReceiveStreamElement(T)
    \/ ParseFeatures(F)
    \/ GoRead
    \/ BindReceive
    \/ BindReceiveNil

\* the steps of Dial that a peer following RFC 6120 without STARTTLS and
\* SASL never causes
NegotiateMore ==
    \/ ReceiveStreamError
    \/ ReceiveStreamEnd
    \/ ReceiveStreamBadNS
    \/ StartTLSWrite
    \/ StartTLSRead
    \/ StartTLSReadNil
    \/ StartTLSHandshake
    \/ SASLWrite
    \/ SASLRead
    \/ SASLReadNil

RouterStep ==
    \/ RouterReadResponse
    \/ RouterFanOut
    \/ RouterReadEnd
    \/ RouterDeliver
    \/ RouterNoCallback
    \/ RouterDelete
    \/ RouterUnlock
    \/ RouterEndClose

CallerStep(p) ==
    \/ AwaitReply(p)
    \/ SendIQReplyOpen(p)
    \/ SendIQReplyPayload(p)
    \/ SendIQReplyClose(p)
    \/ SendPresenceCookie(p)
    \/ SendPresenceWrite(p)

SharedStep(p) ==
    \/ SendIQCookie(p)
    \/ SendIQRegister(p)
    \/ SendIQOpen(p)
    \/ SendIQPayload(p)
    \/ SendIQClose(p)
    \/ CloseCheck(p)
    \/ CloseWrite(p)
    \/ CloseSet(p)

\* the goroutines of Dial: Dial itself and the router it starts
Core ==
    \/ RouterStep
    \/ \E p \in {"dial", "router"} : SharedStep(p)

\* the API calls of the goroutines in C
Calls(C) == \E p \in C : CallerStep(p) \/ SharedStep(p)

\* the users of SubscribeStanzas
Subscribers ==
    \/ Subscribe
    \/ \E i \in 1..MaxSubs : SinkReceive(i)

(***************************************************************************)
(* Spec: a session with a peer that negotiates without STARTTLS and SASL   *)
(* and then sends what it likes, used by concurrent API callers.           *)
(***************************************************************************)
Next ==
    \/ Negotiate({GoodOpener}, {PlainFeatures})
    \/ Core
    \/ Calls(Callers)

Spec == Init /\ [][Next]_vars

(***************************************************************************)
(* SpecSubscribers: the same session used by one API caller and by         *)
(* subscribers to the inbound stanzas.                                     *)
(***************************************************************************)
NextSubscribers ==
    \/ Negotiate({GoodOpener}, {PlainFeatures})
    \/ Core
    \/ Calls({"caller1"})
    \/ Subscribers

SpecSubscribers == Init /\ [][NextSubscribers]_vars

(***************************************************************************)
(* SpecRoster: the session with the roster layer wrapped around it.        *)
(***************************************************************************)
NextRoster ==
    \/ Negotiate({GoodOpener}, {PlainFeatures})
    \/ Core
    \/ RosterStep

SpecRoster == Init /\ [][NextRoster]_vars

(***************************************************************************)
(* SpecDial: Dial with a peer that sends what it likes during the          *)
(* negotiation, up to the return of Dial.                                  *)
(***************************************************************************)
NextDial ==
    \/ Negotiate(Openers, FeatureSets)
    \/ NegotiateMore
    \/ Core

SpecDial == Init /\ [][NextDial]_vars

(***************************************************************************)
(* SpecOld: the earlier client of package rfc6120/client, with a peer that *)
(* negotiates without STARTTLS and SASL, used by concurrent callers of     *)
(* SendIQ.                                                                 *)
(***************************************************************************)
NextOld ==
    \/ OpenStream
    \/ ReceiveStreamElement({GoodOpener})
    \/ ParseFeatures({PlainFeatures})
    \/ OldGoRead
    \/ BindReceive
    \/ OldRouterStep
    \/ \E p \in {"dial"} \cup Callers : OldSendIQ(p)
    \/ \E p \in Callers : AwaitReply(p)

SpecOld == Init /\ [][NextOld]_vars

(***************************************************************************)
(* Properties.                                                             *)
(***************************************************************************)
\* the goroutines that hold a reply channel of SendIQ
Holders == {p \in Procs : reply[p] # 0}

\* C1: an inbound IQ of type result or error whose id is a key of callbacks
\* is put, as it is, into the channel registered under that id, which until
\* then never received anything; after the router's dispatch the id is no key
\* of callbacks; no channel ever receives twice, and a response whose id is
\* no key of callbacks changes no channel.
C1_ResponseDeliveredOnce ==
    /\ [](\A i \in DOMAIN slots : slots[i].sent <= 1)
    /\ [](pc["router"] = "unlock" => Lookup(callbacks, cur.id) = {})
    /\ [][(pc["router"] = "lookup" /\ pc'["router"] = "delete")
            => \E e \in Lookup(callbacks, cur.id) :
                 slots' = [slots EXCEPT ![e.ch].buf = <<cur>>, ![e.ch].sent = 1]]_vars
    /\ [][(pc["router"] = "lookup" /\ pc'["router"] = "read")
            => (Lookup(callbacks, cur.id) = {} /\ slots' = slots)]_vars

\* a response was delivered to its channel and its id deleted, while the id
\* of another pending SendIQ stays registered
C1_Witness ==
    /\ pc["router"] = "unlock"
    /\ IsResponse(cur)
    /\ \E i \in DOMAIN slots : slots[i].buf = <<cur>>
    /\ callbacks # {}

\* C2: the channel a SendIQ call returned holds only responses whose id is
\* the id that call returned, with any number of calls under way and the
\* responses in any order.
C2_ResponseMatchesCaller ==
    \A p \in Holders :
        \A k \in DOMAIN slots[reply[p]].buf : slots[reply[p]].buf[k].id = cookie[p]

\* two SendIQ calls are under way and the later one was answered first
C2_Witness ==
    \E p, q \in Holders :
        /\ reply[p] < reply[q]
        /\ pc[p] = "iq_await" /\ pc[q] = "iq_await"
        /\ slots[reply[p]].sent = 0
        /\ slots[reply[q]].buf # <<>>

\* the writes that belong to a stanza of SendIQ, SendIQReply or SendPresence
StanzaParts == {"iq_open", "iq_payload", "iq_close", "presence"}

\* C3: on the wire, the opening tag and the payload of an IQ are followed by
\* the next write of the same stanza, never by a write of another goroutine's
\* stanza.
C3_WritesSerialized ==
    \A k \in 1..(Len(wire) - 1) :
        (/\ wire[k].part \in {"iq_open", "iq_payload"}
         /\ wire[k + 1].part \in StanzaParts)
        => wire[k + 1].by = wire[k].by

\* the decimal numerals, written out
Numerals ==
    << <<"0">>, <<"1">>, <<"2">>, <<"3">>, <<"4">>, <<"5">>, <<"6">>, <<"7">>,
       <<"8">>, <<"9">>, <<"1", "0">>, <<"1", "1">>, <<"1", "2">> >>

\* C4: the ids handed out are pairwise distinct; the n-th id is the decimal
\* numeral of n - 1; the bind IQ written by Dial carries the id "0".
C4_IdsDistinct ==
    /\ \A i, j \in DOMAIN issued : i # j => issued[i] # issued[j]
    /\ \A i \in DOMAIN issued : i \in DOMAIN Numerals => issued[i] = Numerals[i]
    /\ \A k \in DOMAIN wire :
         (wire[k].by = "dial" /\ wire[k].part = "iq_open") => wire[k].id = <<"0">>

\* after the bind IQ, a SendIQ and a SendPresence have drawn their ids while
\* both calls are under way
C4_Witness ==
    /\ Len(issued) = 3
    /\ \E p, q \in Callers : pc[p] = "iq_lock" /\ pc[q] = "pr_write"

\* goroutine p is inside SendIQ or receiving from the channel it returned,
\* and cannot take its next step: the mutex is held, or the channel is
\* empty and open
Waiting(p) ==
    \/ pc[p] = "iq_lock" /\ mu # "free"
    \/ /\ pc[p] = "iq_await"
       /\ slots[reply[p]].buf = <<>>
       /\ ~slots[reply[p]].closed

\* C5: once the router has ended, no caller of SendIQ is left waiting: its
\* channel holds the response or was closed, and the call itself returns.
\* (After the router's end nothing sends on a channel, closes one or
\* releases the mutex, so a goroutine waiting then waits for ever.)
C5_NoCallerWaitsForever ==
    pc["router"] = "done" => \A p \in Procs \ {"router"} : ~Waiting(p)

\* C6: when the router has ended, the TCP connection is closed.
C6_TransportClosedAtRouterEnd ==
    pc["router"] = "done" => tcpClosed

\* C7: before any call of Close nothing is closed; the first call of Close
\* goes on to write the closing tag and, when the first call returns, closing
\* is set, the tag is on the wire and the transport is open; a call begun
\* after a call has returned closes the transport, writes nothing and
\* returns; closing never goes back to false.
C7_CloseTwoPhase ==
    /\ [](closeBegun = 0 => (~closing /\ ~tcpClosed /\ tagsWritten = 0))
    /\ [][(closeBegun = 0 /\ closeBegun' = 1)
            => (/\ ~tcpClosed'
                /\ closeDone' = 0
                /\ \E p \in Procs : pc'[p] = "close_write")]_vars
    /\ [][(closeDone = 0 /\ closeDone' = 1)
            => (closing' /\ tagsWritten' >= 1 /\ ~tcpClosed')]_vars
    /\ [](closeDone >= 1 => closing)
    /\ [][(closeDone >= 1 /\ closeBegun' = closeBegun + 1)
            => (/\ tcpClosed'
                /\ wire' = wire
                /\ tagsWritten' = tagsWritten
                /\ closeDone' = closeDone + 1)]_vars
    /\ [][closing => closing']_vars

\* a first call wrote the tag and a later call closed the transport
C7_Witness ==
    /\ closeDone >= 2
    /\ tagsWritten = 1
    /\ tcpClosed

\* the stanzas the router hands to the subscribers
FannedOut == {nv \in Inbound : ~IsResponse(nv) /\ StillSent(nv)}

\* C8: the router's dispatch never waits.  A response the router is about
\* to deliver finds its channel open and empty; whenever the router reads,
\* every stanza it can fan out reaches every sink with room, whatever the
\* state of the other sinks, and a fan-out step appends the stanza to the
\* sinks with room, leaves the full ones as they are and leaves the
\* callbacks, the reply channels and the router where they were.
C8_DispatchNeverBlocks ==
    /\ [](pc["router"] = "lookup"
            => \A e \in Lookup(callbacks, cur.id) :
                   /\ Len(slots[e.ch].buf) < ReplyCap
                   /\ ~slots[e.ch].closed)
    /\ [](At("router", "read")
            => \A nv \in FannedOut : \A i \in DOMAIN sinks :
                   Len(sinks[i]) < SinkCap
                       => ENABLED (/\ RouterFanOut
                                   /\ sinks'[i] = Append(sinks[i], nv)))
    /\ [][(/\ Len(sinks') = Len(sinks)
           /\ \E i \in DOMAIN sinks : Len(sinks'[i]) > Len(sinks[i]))
            => /\ \E nv \in FannedOut : \A i \in DOMAIN sinks :
                      sinks'[i] = IF Len(sinks[i]) < SinkCap
                                  THEN Append(sinks[i], nv)
                                  ELSE sinks[i]
               /\ pc' = pc
               /\ cbVars' = cbVars]_vars

\* a full sink lost a stanza that another sink received, and the router
\* went on to deliver a response
C8_Witness ==
    /\ \E i, j \in DOMAIN sinks :
          /\ i < j
          /\ Len(sinks[i]) = SinkCap
          /\ sinks[j] # <<>>
          /\ sinks[j][Len(sinks[j])] # sinks[i][Len(sinks[i])]
    /\ pc["router"] = "delete"

\* C9: jid is empty and no subscriber has received anything until bind has
\* completed; jid changes only in the step in which bind receives its
\* response, from empty to the jid of that response, which is not empty
\* when the response is a result; from then on jid stays what it is.
C9_JidSetOnce ==
    /\ [](pc["dial"] # "returned" => (jid = "" /\ sinks = <<>>))
    /\ [][jid' # jid
            => /\ jid = ""
               /\ pc["dial"] = "iq_await"
               /\ pc'["dial"] = "returned"]_vars
    /\ [][(pc["dial"] = "iq_await" /\ pc'["dial"] = "returned")
            => LET response == Head(slots[reply["dial"]].buf)
               IN  /\ jid' = response.jid
                   /\ response.type = "result" => jid' \in JIDs]_vars
    /\ [][jid # "" => jid' = jid]_vars

\* bind succeeded and a subscriber has received a stanza
C9_Witness ==
    /\ pc["dial"] = "returned"
    /\ jid \in JIDs
    /\ \E i \in DOMAIN sinks : sinks[i] # <<>>

\* C10: when receiveStream has returned UnsupportedVersion, Dial goes no
\* further: the router is not started and nothing is bound.
C10_UnsupportedVersionEndsDial ==
    rsResult.err = "UnsupportedVersion" => pc["router"] = "off"

\* C11: when the reply to <starttls/> is not "proceed", startTLS returns
\* TlsRefused: it does not go on to the handshake, whose outcomes are
\* TLSOutcomes.
C11_RefusalStartsNoHandshake ==
    (pc["dial"] = "openStream" /\ tok = Token("startTLS", "failure"))
        => tlsResult = "TlsRefused"

\* the errors startTLS returns after "proceed" (client.go:364-375)
TLSErrors == TLSOutcomes \ {"ok"}

\* C12: when the handshake, the certificate chain or the host name fails,
\* startTLS leaves the transport and the parser as they are, and Dial, back
\* from that startTLS, takes no further step: it opens no new stream.
C12_TLSFailureEndsNegotiation ==
    /\ [][(/\ pc["dial"] = "tls_handshake"
           /\ pc'["dial"] # "tls_handshake"
           /\ tlsResult' \in TLSErrors)
            => (conn' = conn /\ decoderOn' = decoderOn)]_vars
    /\ [][(/\ pc["dial"] = "openStream"
           /\ tok.fn = "startTLS"
           /\ tlsResult \in TLSErrors)
            => pc'["dial"] = "openStream"]_vars

\* C13: sasl resets the parser exactly when the reply is "success"; after
\* the reply "failure" Dial, back from sasl, takes no further step: it opens
\* no new stream and binds nothing.
C13_AuthFailureEndsNegotiation ==
    /\ [][(pc["dial"] = "sasl_read" /\ pc'["dial"] # "sasl_read")
            => /\ tok'.local = "success"
                    => (decoderOn' = conn /\ features' = {})
               /\ tok'.local # "success"
                    => (decoderOn' = decoderOn /\ features' = features)]_vars
    /\ [][(pc["dial"] = "openStream" /\ tok = Token("sasl", "failure"))
            => pc'["dial"] = "openStream"]_vars

\* C14: when the router ends, the sink channel of every subscriber
\* registered by then is closed.
C14_SinksClosedAtStreamEnd ==
    [][(pc["router"] # "done" /\ pc'["router"] = "done")
         => \A i \in DOMAIN sinks : SinkClosed(i)]_vars

\* the ids of the roster pushes in a sequence of stanzas
RECURSIVE PushIdsOf(_)
PushIdsOf(sq) ==
    IF sq = <<>> THEN <<>>
    ELSE (IF IsRosterPush(Head(sq)) THEN <<Head(sq).id>> ELSE <<>>)
         \o PushIdsOf(Tail(sq))

\* the ids of the roster layer's SendIQReply calls
RECURSIVE ReplyIdsOf(_)
ReplyIdsOf(sq) ==
    IF sq = <<>> THEN <<>> ELSE <<Head(sq).id>> \o ReplyIdsOf(Tail(sq))

\* the roster pushes the roster layer has answered, is answering or still
\* has in its sink, oldest first
PushesHeld ==
    ReplyIdsOf(rosterReplies)
    \o (IF pc["roster"] = "rp_open" THEN <<cookie["roster"]>> ELSE <<>>)
    \o (IF stanzas = 0 THEN <<>> ELSE PushIdsOf(sinks[stanzas]))

\* a is b with some elements left out
RECURSIVE IsSubSeq(_, _)
IsSubSeq(a, b) ==
    IF a = <<>> THEN TRUE
    ELSE IF b = <<>> THEN FALSE
    ELSE IF Head(a) = Head(b) THEN IsSubSeq(Tail(a), Tail(b))
    ELSE IsSubSeq(a, Tail(b))

\* the router consults callbacks for responses only, a step that reads a
\* roster push touches neither callbacks nor the reply channels, and no
\* step of SendIQReply changes callbacks
RequestsBypassCallbacks ==
    /\ [](pc["router"] \in {"lookup", "delete", "unlock"}
            => (cur.kind = "iq" /\ cur.type \in {"result", "error"}))
    /\ [][pushesRead' # pushesRead
            => (cbVars' = cbVars /\ pc'["router"] = pc["router"])]_vars
    /\ [][(\E p \in Procs : pc[p] \in {"rp_open", "rp_payload", "rp_close"}
                            /\ pc'[p] # pc[p])
            => callbacks' = callbacks]_vars

\* the roster layer answers a roster push it takes from its sink, and
\* nothing else, with one SendIQReply("", "result", id of the push, nil)
RosterAnswersPush ==
    /\ [][(/\ pc["roster"] = "range"
           /\ Len(sinks'[stanzas]) < Len(sinks[stanzas]))
            => LET stanza == Head(sinks[stanzas])
               IN  IF IsRosterPush(stanza)
                   THEN /\ pc'["roster"] = "rp_open"
                        /\ cookie'["roster"] = stanza.id
                   ELSE pc'["roster"] = "range"]_vars
    /\ [][rosterReplies' # rosterReplies
            => /\ pc["roster"] = "rp_open"
               /\ pc'["roster"] = "rp_close"
               /\ rosterReplies' =
                      Append(rosterReplies,
                             [to |-> "", type |-> "result",
                              id |-> cookie["roster"], hasValue |-> FALSE])
               /\ wire' = Written(wire, tcpClosed,
                                  Chunk("roster", "iq_open", cookie["roster"]))]_vars
    /\ [][(pc["roster"] = "rp_open" /\ pc'["roster"] # "rp_open")
            => rosterReplies' # rosterReplies]_vars

\* C15 as stated: an inbound IQ of type set or get never touches callbacks,
\* SendIQReply registers nothing, and every roster push the router has read
\* is answered by the roster layer exactly once: the pushes answered, being
\* answered or waiting in the roster layer's sink are the pushes read.
C15_EveryPushAnswered ==
    /\ RequestsBypassCallbacks
    /\ RosterAnswersPush
    /\ [](PushesHeld = pushesRead)

\* C15 amended: the same, for the roster pushes that reach the roster
\* layer's sink: the pushes answered, being answered or waiting are among
\* the pushes read, in the order read, each at most once.
C15_DeliveredPushAnswered ==
    /\ RequestsBypassCallbacks
    /\ RosterAnswersPush
    /\ [](IsSubSeq(PushesHeld, pushesRead))

\* two pushes were read, one with the id of the bind IQ while that was
\* pending or not; the roster layer missed one and has answered the other
C15_Witness ==
    /\ Len(pushesRead) = 2
    /\ Len(rosterReplies) = 1
    /\ pc["roster"] = "range"
    /\ sinks[stanzas] = <<>>
    /\ rosterReplies[1].id = CookieOf(0)

\* the order of Dial's steps: from each position, the positions that may
\* follow it
DialOrder ==
    {<<"openStream", "receiveStream">>,
     <<"receiveStream", "parseFeatures">>,
     <<"receiveStream", "rs_error">>, <<"rs_error", "close_check">>,
     <<"close_check", "close_write">>, <<"close_check", "parseFeatures">>,
     <<"close_write", "close_set">>, <<"close_set", "parseFeatures">>,
     <<"parseFeatures", "startTLS">>, <<"parseFeatures", "sasl">>,
     <<"parseFeatures", "goRead">>,
     <<"startTLS", "tls_read">>, <<"tls_read", "tls_handshake">>,
     <<"tls_handshake", "openStream">>,
     <<"sasl", "sasl_read">>, <<"sasl_read", "openStream">>,
     <<"goRead", "iq_cookie">>}

\* C16: every iteration of Dial's loop opens the stream, receives the
\* opener and parses the features in that order; then STARTTLS is done if
\* the features include starttls, whatever they say of sasl, else SASL if
\* they require sasl, and both restart the loop; else the loop is left, and
\* only then is the router started and is an id drawn for the bind IQ.
C16_NegotiationOrder ==
    /\ [][(pc'["dial"] # pc["dial"] /\ pc["router"] = "off")
            => <<pc["dial"], pc'["dial"]>> \in DialOrder]_vars
    /\ [][(pc["dial"] = "openStream" /\ pc'["dial"] # "openStream")
            => wire' = Written(wire, tcpClosed, Chunk("dial", "stream_open", <<>>))]_vars
    /\ [][(pc["dial"] = "parseFeatures" /\ pc'["dial"] # "parseFeatures")
            => pc'["dial"] =
                 IF \E f \in features' : f.name = "starttls" THEN "startTLS"
                 ELSE IF \E f \in features' : f.name = "sasl" /\ f.required
                      THEN "sasl"
                 ELSE "goRead"]_vars
    /\ [][(pc["router"] = "off" /\ pc'["router"] # "off")
            => (pc["dial"] = "goRead" /\ pc'["dial"] = "iq_cookie")]_vars
    /\ [](pc["router"] = "off" => (issued = <<>> /\ callbacks = {}))

\* the features include starttls and require sasl, and Dial has chosen
\* STARTTLS
C16_Witness ==
    /\ pc["dial"] = "startTLS"
    /\ \E f \in features : f.name = "sasl" /\ f.required
    /\ \E f \in features : f.name = "starttls"

\* C17: when Dial has written the opener of a restart (an opener after the
\* first), the feature set has been cleared by a reset since it was last
\* parsed; and wherever the client reads a token, the parser reads from the
\* outermost transport.
C17_ResetBeforeRestart ==
    /\ (pc["dial"] = "receiveStream" /\ iter > 1) => features = {}
    /\ (\/ pc["dial"] \in {"receiveStream", "tls_read", "sasl_read"}
        \/ pc["router"] = "read")
           => decoderOn = conn

\* C18: the router does not hold the mutex while it is in Close, which
\* writes to the transport, and it has released the mutex when it has ended.
C18_MutexReleased ==
    /\ mu = "router"
         => pc["router"] \notin {"close_check", "close_write", "close_set"}
    /\ pc["router"] = "done" => mu = "free"

\* C19: no channel registered in callbacks holds a response: the entry is
\* removed before the response is put into the channel.
C19_DeleteBeforeSignal ==
    \A e \in callbacks : slots[e.ch].buf = <<>> /\ slots[e.ch].sent = 0

\* the goroutines inside SendIQ, past the registration
Writing == {p \in Procs : pc[p] \in {"iq_open", "iq_payload", "iq_close"}}

\* C20 as stated: while a SendIQ call has not returned, the router has put
\* nothing into the channel that call registered.
C20_NoDeliveryBeforeReturn ==
    \A p \in Writing : slots[reply[p]].sent = 0

\* C20 amended: when SendIQ writes the first byte of the IQ its id has been
\* registered with its channel (and is still registered, unless the router
\* has delivered a response to it since); and the router puts a stanza only
\* into a channel that is registered under the id of that stanza.
C20_RegisteredBeforeWritten ==
    /\ [][\A p \in Procs :
            (pc[p] = "iq_open" /\ pc'[p] = "iq_payload")
              => \/ \E e \in callbacks : e.id = cookie[p] /\ e.ch = reply[p]
                 \/ slots[reply[p]].sent = 1]_vars
    /\ [][\A i \in DOMAIN slots :
            slots'[i].sent > slots[i].sent
              => \E e \in callbacks : e.ch = i /\ e.id = cur.id]_vars
    /\ [](\A p \in Writing : \A k \in DOMAIN slots[reply[p]].buf :
            slots[reply[p]].buf[k].id = cookie[p])

\* a response was delivered to a caller that is still writing its IQ
C20_Witness ==
    \E p \in Callers :
        /\ pc[p] = "iq_payload"
        /\ slots[reply[p]].sent = 1
        /\ \E k \in DOMAIN wire : wire[k] = Chunk(p, "iq_open", cookie[p])

\* C21: an element the router's switch does not know is skipped: no sink
\* ever holds the nil stanza value that such an element leaves in nv.
C21_UnknownElementSkipped ==
    \A i \in DOMAIN sinks : \A k \in DOMAIN sinks[i] : sinks[i][k] # NilStanza

\* C22: however the calls of Close interleave, the closing tag is written
\* at most once, and once two calls of Close have returned the TCP
\* connection is closed.
C22_CloseOnceUnderRaces ==
    /\ tagsWritten <= 1
    /\ closeDone >= 2 => tcpClosed

\* C23: when the router has closed the channel of the bind IQ before a
\* response came, bind does not use the missing response: the program does
\* not panic while Dial is receiving from that channel.
C23_BindSeesCancellation ==
    (pc["dial"] = "iq_await" /\ slots[reply["dial"]].closed) => ~crashed

\* the positions of the router after it has closed the pending channels
RouterEnded == {"close_check", "close_write", "close_set", "done"}

\* C24: no reply channel is written after it was closed and none is closed
\* twice.  A response about to be delivered finds its channel open, and a
\* closed channel receives nothing more; channels are closed only in the
\* router's end-of-stream step, which closes exactly the channels registered
\* in callbacks, each registered once and none of them closed before; and
\* from then on the router reads, delivers and closes nothing.
C24_NoWriteAfterClose ==
    /\ [](pc["router"] = "lookup"
            => \A e \in Lookup(callbacks, cur.id) : ~slots[e.ch].closed)
    /\ [][\A i \in DOMAIN slots :
            slots[i].closed => (slots'[i].sent = slots[i].sent /\ slots'[i].closed)]_vars
    /\ [][(\E i \in DOMAIN slots : slots'[i].closed /\ ~slots[i].closed)
            => (pc["router"] = "eos_close" /\ pc'["router"] = "close_check")]_vars
    /\ [][(pc["router"] = "eos_close" /\ pc'["router"] # "eos_close")
            => /\ \A e \in callbacks : ~slots[e.ch].closed
               /\ \A i \in DOMAIN slots :
                    slots'[i].closed = (\E e \in callbacks : e.ch = i)
               /\ pc'["router"] \in RouterEnded]_vars
    /\ [](\A e, f \in callbacks : e.ch = f.ch => e = f)
    /\ [][pc["router"] \in RouterEnded
            => /\ pc'["router"] \in RouterEnded
               /\ \A i \in DOMAIN slots :
                    /\ slots'[i].sent = slots[i].sent
                    /\ slots'[i].closed = slots[i].closed]_vars

\* the router has ended: it closed the channel of a pending SendIQ, once,
\* and left alone the channel it had delivered a response to
C24_Witness ==
    /\ pc["router"] = "done"
    /\ \E i, j \in DOMAIN slots :
          /\ slots[i].closed /\ slots[i].sent = 0
          /\ ~slots[j].closed /\ slots[j].sent = 1

\* the last exchange of Dial ended well: "success" for SASL, or "proceed"
\* and a verified handshake for STARTTLS
ExchangeSucceeded ==
    \/ tok = Token("sasl", "success")
    \/ tok = Token("startTLS", "proceed") /\ tlsResult = "ok"

\* C25: on one connection Dial begins at most one STARTTLS exchange and at
\* most one SASL exchange, and it opens the stream again only after an
\* exchange that succeeded, never to retry a failed one.
C25_NegotiationTerminates ==
    /\ exchanges.startTLS <= 1
    /\ exchanges.sasl <= 1
    /\ (pc["dial"] = "receiveStream" /\ iter > 1) => ExchangeSucceeded

\* C26: in the earlier router the mutex is held by the router whenever the
\* router comes to the Unlock that ends an iteration, and it is not held by
\* the router while the router waits to send on c.Stream.
C26_UnlockFollowsLock ==
    /\ pc["router"] = "old_unlock" => mu = "router"
    /\ pc["router"] = "old_send" => mu # "router"

====
